---- MODULE Spec2Model ----
(***************************************************************************)
(* Model of repo-ml-analysis-service (src/main.py): the keyword clustering *)
(* engine top_keywords and the GET /analyze-keywords route around it.      *)
(*                                                                         *)
(* A keyword is a sequence of one-character strings, so that strip() and   *)
(* lower() are computed rather than assumed.  Cosine similarities and      *)
(* distances are fixed-point numbers in units of 1/One: One is the literal *)
(* 1 of "1 - sim" and distance_threshold the literal 0.25.                 *)
(***************************************************************************)
EXTENDS Integers, Sequences, FiniteSets, TLC

VARIABLES
    topics,           \* what fetch_latest_topics() returns (database content)
    sim_model,        \* cosine similarity the loaded model gives two keywords
    status,           \* outcome of the last request
    top_n,            \* top_keywords' arguments and locals, as the last
    return_related,   \*   invocation left them
    freq,
    uniques,
    labels,
    clusters,
    scores,
    rep_to_related,
    top_reps,
    resp              \* response body of the last request

vars == <<topics, sim_model, status, top_n, return_related, freq, uniques,
          labels, clusters, scores, rep_to_related, top_reps, resp>>

(* ------------------------------ bounds --------------------------------- *)

MaxKeywords == 3
MaxRankKeywords == 6

(* --------------------------- program constants ------------------------- *)

One == 8
distance_threshold == 2
MinTopN == 1
MaxTopN == 30

Whitespace == {" "}

RawKeywords ==
    { <<"a">>, <<" ", "A">>, <<"B", " ">>, <<"c">>, <<" ">> }

Vocabulary == { <<"a">>, <<"b">>, <<"c">> }

TopNs == {MinTopN, MinTopN + 1, MaxTopN}

\* Cosine distances of two distinct keywords: from identical embeddings to
\* one step beyond the threshold.
Distances == 0..(distance_threshold + 1)

(* ------------------------- sequence helpers ---------------------------- *)

Range(s) == { s[i] : i \in 1..Len(s) }

Max2(a, b) == IF a >= b THEN a ELSE b

Min2(a, b) == IF a <= b THEN a ELSE b

SeqsUpTo(S, n) == UNION { [1..k -> S] : k \in 0..n }

IndexOf(s, x) == CHOOSE i \in 1..Len(s) : s[i] = x /\ \A j \in 1..(i - 1) : s[j] # x

(* ------------------- normalisation: kw.strip().lower() ----------------- *)

RECURSIVE LStrip(_)
LStrip(s) ==
    IF s # <<>> /\ Head(s) \in Whitespace THEN LStrip(Tail(s)) ELSE s

RECURSIVE RStrip(_)
RStrip(s) ==
    IF s # <<>> /\ s[Len(s)] \in Whitespace
    THEN RStrip(SubSeq(s, 1, Len(s) - 1))
    ELSE s

Strip(s) == RStrip(LStrip(s))

LowerChar(c) ==
    CASE c = "A" -> "a"
      [] c = "B" -> "b"
      [] c = "C" -> "c"
      [] OTHER -> c

Lower(s) == [i \in 1..Len(s) |-> LowerChar(s[i])]

Normalize(kw) == Lower(Strip(kw))

(* ---------------------- frequency map (lines 73-81) -------------------- *)

\* The dict freq after the loop over keywords[1..n]; uniques is list(freq),
\* the keys in insertion order.
RECURSIVE FreqMap(_, _)
FreqMap(keywords, n) ==
    IF n = 0 THEN [k \in {} |-> 0]
    ELSE LET prev == FreqMap(keywords, n - 1)
             k == Normalize(keywords[n])
         IN  IF k = <<>> THEN prev
             ELSE [x \in DOMAIN prev \cup {k} |->
                      IF x = k
                      THEN (IF k \in DOMAIN prev THEN prev[k] ELSE 0) + 1
                      ELSE prev[x]]

RECURSIVE Uniques(_, _)
Uniques(keywords, n) ==
    IF n = 0 THEN <<>>
    ELSE LET prev == Uniques(keywords, n - 1)
             k == Normalize(keywords[n])
         IN  IF k = <<>> \/ k \in Range(prev) THEN prev ELSE Append(prev, k)

(* ------------- embeddings, similarity, distance (lines 84-92) ---------- *)

\* cosine_similarity(model.encode(uniques)): entry [i][j] for uniques i, j.
Sim(m, u) ==
    [i \in 1..Len(u) |-> [j \in 1..Len(u) |->
        IF i = j THEN One ELSE m[{u[i], u[j]}]]]

\* Mutant of Distance: the similarity matrix itself is handed to fit.
DistanceAsSim(sim) == sim

\* The argument of fit: 1 - sim.
Distance(sim) ==
    [i \in DOMAIN sim |-> [j \in DOMAIN sim |-> One - sim[i][j]]]

(* ----- AgglomerativeClustering(linkage="complete", metric="precomputed") *)

(* What the call of lines 87-92 does, as scikit-learn and SciPy do it: the *)
(* upper triangle of the matrix goes to the nearest-neighbour-chain        *)
(* linkage, the merges are sorted by distance (stable), n_clusters_ is one *)
(* more than the number of merges at distance >= distance_threshold, and   *)
(* the tree is cut by undoing that many of the last merges.  fit accepts   *)
(* no input of fewer than 2 samples.                                       *)

\* Mutant of NewDist: single linkage.
NewDistSingle(dix, diy) == Min2(dix, diy)

\* Complete linkage: the distance from cluster i to the merger of x and y.
NewDist(dix, diy) == Max2(dix, diy)

\* One search of the nearest-neighbour chain: the cluster nearest to x among
\* the live ones, the previous element of the chain winning ties, and
\* otherwise the lowest index among the strictly nearest.
Nearest(D, size, x, prev) ==
    LET live == { i \in DOMAIN size : size[i] > 0 /\ i # x }
        best == CHOOSE i \in live :
                    \A j \in live : D[x][i] < D[x][j] \/ (D[x][i] = D[x][j] /\ i <= j)
    IN  IF prev # 0 /\ D[x][prev] <= D[x][best] THEN prev ELSE best

\* Extend the chain until its last two elements are mutual nearest neighbours.
RECURSIVE GrowChain(_, _, _)
GrowChain(D, size, chain) ==
    LET len == Len(chain)
        x == chain[len]
        prev == IF len > 1 THEN chain[len - 1] ELSE 0
        y == Nearest(D, size, x, prev)
    IN  IF len > 1 /\ y = prev THEN chain ELSE GrowChain(D, size, Append(chain, y))

\* The n-1 merges <<x, y, distance>> in the order the chain finds them.
RECURSIVE NNChain(_, _, _, _)
NNChain(D, size, chain, Z) ==
    IF Len(Z) = Cardinality(DOMAIN size) - 1 THEN Z
    ELSE
      LET start == IF chain = <<>>
                   THEN << CHOOSE i \in DOMAIN size :
                             size[i] > 0 /\ \A j \in DOMAIN size : size[j] > 0 => i <= j >>
                   ELSE chain
          grown == GrowChain(D, size, start)
          a == grown[Len(grown)]
          b == grown[Len(grown) - 1]
          x == Min2(a, b)
          y == Max2(a, b)
          d == D[a][b]
          size2 == [size EXCEPT ![x] = 0, ![y] = size[x] + size[y]]
          D2 == [i \in DOMAIN D |-> [j \in DOMAIN D |->
                    IF i = y /\ j # y /\ size2[j] > 0 THEN NewDist(D[j][x], D[j][y])
                    ELSE IF j = y /\ i # y /\ size2[i] > 0 THEN NewDist(D[i][x], D[i][y])
                    ELSE D[i][j]]]
      IN  NNChain(D2, size2, SubSeq(grown, 1, Len(grown) - 2),
                  Append(Z, <<x, y, d>>))

\* Stable insertion of merge m into Z sorted by distance ascending.
RECURSIVE InsertMerge(_, _)
InsertMerge(Z, m) ==
    IF Z = <<>> THEN <<m>>
    ELSE IF Z[Len(Z)][3] <= m[3] THEN Append(Z, m)
    ELSE Append(InsertMerge(SubSeq(Z, 1, Len(Z) - 1), m), Z[Len(Z)])

RECURSIVE SortMerges(_)
SortMerges(Z) ==
    IF Z = <<>> THEN <<>>
    ELSE InsertMerge(SortMerges(SubSeq(Z, 1, Len(Z) - 1)), Z[Len(Z)])

\* The linkage tree: merges sorted by distance (stable).
LinkageTree(D) ==
    SortMerges(NNChain(D, [i \in DOMAIN D |-> 1], <<>>, <<>>))

\* Mutant of NClusters: the comparison with the threshold is turned round.
NClustersFlipped(Z, threshold) ==
    Cardinality({ k \in 1..Len(Z) : Z[k][3] <= threshold }) + 1

\* n_clusters_ = count_nonzero(distances_ >= distance_threshold) + 1
NClusters(Z, threshold) ==
    Cardinality({ k \in 1..Len(Z) : Z[k][3] >= threshold }) + 1

\* Labels after the first `kept` merges of Z: every point carries the lowest
\* index of its cluster (the integer values are opaque to the caller).
RECURSIVE CutLabels(_, _, _)
CutLabels(Z, kept, n) ==
    IF kept = 0 THEN [i \in 1..n |-> i]
    ELSE LET lab == CutLabels(Z, kept - 1, n)
             lx == lab[Z[kept][1]]
             ly == lab[Z[kept][2]]
         IN  [i \in 1..n |-> IF lab[i] \in {lx, ly} THEN Min2(lx, ly) ELSE lab[i]]

\* fit(D).labels_ for n >= 2 samples.
FitLabels(D, threshold) ==
    LET n == Cardinality(DOMAIN D)
        Z == LinkageTree(D)
    IN  CutLabels(Z, n - NClusters(Z, threshold), n)

\* fit validates its input with ensure_min_samples=2 and raises otherwise;
\* the input has one row per unique keyword.
FitRaises(u) == Len(u) < 2

(* ------------------ label -> keywords (lines 94-97) -------------------- *)

\* The dict clusters after zip(uniques, labels)[1..n], as the sequence of its
\* values in insertion order, with the sequence of its keys beside it.
RECURSIVE ClusterKeys(_, _)
ClusterKeys(lab, n) ==
    IF n = 0 THEN <<>>
    ELSE LET prev == ClusterKeys(lab, n - 1)
         IN  IF lab[n] \in Range(prev) THEN prev ELSE Append(prev, lab[n])

RECURSIVE Clusters(_, _, _)
Clusters(u, lab, n) ==
    IF n = 0 THEN <<>>
    ELSE LET prev == Clusters(u, lab, n - 1)
             keys == ClusterKeys(lab, n - 1)
         IN  IF lab[n] \in Range(keys)
             THEN [prev EXCEPT ![IndexOf(keys, lab[n])] = Append(@, u[n])]
             ELSE Append(prev, <<u[n]>>)

(* ------------- representative and score (lines 102-106) ---------------- *)

\* Mutant of MaxByFreq: the last of the members of greatest freq.
MaxByFreqLast(kws, f) ==
    LET i == CHOOSE i \in 1..Len(kws) :
                 /\ \A j \in 1..Len(kws) : f[kws[j]] <= f[kws[i]]
                 /\ \A j \in (i + 1)..Len(kws) : f[kws[j]] < f[kws[i]]
    IN  kws[i]

\* max(kws, key=lambda k: freq[k]): the first of the members of greatest freq.
MaxByFreq(kws, f) ==
    LET i == CHOOSE i \in 1..Len(kws) :
                 /\ \A j \in 1..Len(kws) : f[kws[j]] <= f[kws[i]]
                 /\ \A j \in 1..(i - 1) : f[kws[j]] < f[kws[i]]
    IN  kws[i]

RECURSIVE SumFreq(_, _, _)
SumFreq(kws, f, n) ==
    IF n = 0 THEN 0 ELSE SumFreq(kws, f, n - 1) + f[kws[n]]

Total(kws, f) == SumFreq(kws, f, Len(kws))

\* Mutant of Related: the representative is not filtered out.
RelatedAll(kws, rep) == kws

\* [w for w in kws if w != rep]
Related(kws, rep) == SelectSeq(kws, LAMBDA w : w # rep)

Scores(cl, f) ==
    [c \in 1..Len(cl) |-> <<MaxByFreq(cl[c], f), Total(cl[c], f)>>]

RepToRelated(cl, f) ==
    [rep \in { MaxByFreq(cl[c], f) : c \in 1..Len(cl) } |->
        LET c == CHOOSE c \in 1..Len(cl) : MaxByFreq(cl[c], f) = rep
        IN  Related(cl[c], rep)]

(* ------------------ ranking and truncation (108-109) ------------------- *)

\* Mutant of InsertScore: equal totals change places (an unstable sort).
RECURSIVE InsertScoreUnstable(_, _)
InsertScoreUnstable(sc, x) ==
    IF sc = <<>> THEN <<x>>
    ELSE IF sc[Len(sc)][2] > x[2] THEN Append(sc, x)
    ELSE Append(InsertScoreUnstable(SubSeq(sc, 1, Len(sc) - 1), x), sc[Len(sc)])

\* Stable insertion of x into sc sorted by total descending.
RECURSIVE InsertScore(_, _)
InsertScore(sc, x) ==
    IF sc = <<>> THEN <<x>>
    ELSE IF sc[Len(sc)][2] >= x[2] THEN Append(sc, x)
    ELSE Append(InsertScore(SubSeq(sc, 1, Len(sc) - 1), x), sc[Len(sc)])

\* scores.sort(key=lambda x: x[1], reverse=True)
RECURSIVE SortScores(_)
SortScores(sc) ==
    IF sc = <<>> THEN <<>>
    ELSE InsertScore(SortScores(SubSeq(sc, 1, Len(sc) - 1)), sc[Len(sc)])

\* Mutant of TopReps: the ranking is not cut to top_n.
TopRepsAll(sc, n) == [i \in 1..Len(sc) |-> sc[i][1]]

\* [kw for kw, _ in scores[:top_n]]
TopReps(sc, n) == [i \in 1..Min2(n, Len(sc)) |-> sc[i][1]]

\* {k: rep_to_related[k] for k in top_reps}
RelatedOf(reps, r2r) == [k \in Range(reps) |-> r2r[k]]

EmptyDict == [k \in {} |-> <<>>]

\* The body analyze_keywords returns (lines 133-137), top and related being
\* what top_keywords returned (lines 111-114); a raised exception is a 500.
Response(st, top, r2r, includeRelated) ==
    IF st # "ok" THEN [status_code |-> 500]
    ELSE IF includeRelated
         THEN [topKeywords |-> top, related |-> RelatedOf(top, r2r)]
         ELSE [topKeywords |-> top]

(* ------------------------------ state ---------------------------------- *)

Pairs == { {a, b} : a \in Vocabulary, b \in Vocabulary } \ { {a} : a \in Vocabulary }

Idle ==
    /\ status = "idle"
    /\ top_n = 0
    /\ return_related = FALSE
    /\ freq = EmptyDict
    /\ uniques = <<>>
    /\ labels = <<>>
    /\ clusters = <<>>
    /\ scores = <<>>
    /\ rep_to_related = EmptyDict
    /\ top_reps = <<>>
    /\ resp = EmptyDict

Init ==
    /\ topics \in SeqsUpTo(RawKeywords, MaxKeywords)
    /\ sim_model \in [Pairs -> { One - d : d \in Distances }]
    /\ Idle

InitRank ==
    /\ topics \in SeqsUpTo(Vocabulary, MaxRankKeywords)
    /\ sim_model \in [Pairs -> { One, One - (distance_threshold + 1) }]
    /\ Idle

(* ----------------------------- handlers -------------------------------- *)

\* No locals of top_keywords survive a request that never reaches it.
NoLocals ==
    /\ top_n' = 0
    /\ return_related' = FALSE
    /\ freq' = EmptyDict
    /\ uniques' = <<>>
    /\ labels' = <<>>
    /\ clusters' = <<>>
    /\ scores' = <<>>
    /\ rep_to_related' = EmptyDict
    /\ top_reps' = <<>>

\* GET /analyze-keywords when fetch_latest_topics raises: HTTP 500.
AnalyzeKeywordsFetchFails ==
    /\ status = "idle"
    /\ status' = "fetch_failed"
    /\ resp' = [status_code |-> 500]
    /\ NoLocals
    /\ UNCHANGED <<topics, sim_model>>

\* GET /analyze-keywords?topN=..&includeRelated=.. with the topics fetched:
\* top_keywords(topics, topN, includeRelated) and the response built from it.
AnalyzeKeywords(topN, includeRelated) ==
    /\ status = "idle"
    /\ top_n' = topN
    /\ return_related' = includeRelated
    /\ freq' = FreqMap(topics, Len(topics))
    /\ uniques' = Uniques(topics, Len(topics))
    /\ UNCHANGED <<topics, sim_model>>
    /\ \/ \* line 81: return [], {}
          /\ uniques' = <<>>
          /\ status' = "ok"
          /\ labels' = <<>>
          /\ clusters' = <<>>
          /\ scores' = <<>>
          /\ rep_to_related' = EmptyDict
          /\ top_reps' = <<>>
       \/ \* line 92: fit raises ValueError and the request fails
          /\ uniques' # <<>>
          /\ FitRaises(uniques')
          /\ status' = "raised"
          /\ labels' = <<>>
          /\ clusters' = <<>>
          /\ scores' = <<>>
          /\ rep_to_related' = EmptyDict
          /\ top_reps' = <<>>
       \/ /\ uniques' # <<>>
          /\ ~FitRaises(uniques')
          /\ status' = "ok"
          /\ labels' = FitLabels(Distance(Sim(sim_model, uniques')), distance_threshold)
          /\ clusters' = Clusters(uniques', labels', Len(uniques'))
          /\ scores' = SortScores(Scores(clusters', freq'))
          /\ rep_to_related' = RepToRelated(clusters', freq')
          /\ top_reps' = TopReps(scores', top_n')
    /\ resp' = Response(status', top_reps', rep_to_related', includeRelated)

\* GET /
Root ==
    /\ status = "idle"
    /\ status' = "root"
    /\ resp' = [message |-> "repo-ml-analysis-service up"]
    /\ NoLocals
    /\ UNCHANGED <<topics, sim_model>>

\* The response is sent and the request's locals go out of scope; requests
\* share nothing but the topics and the model.
Return ==
    /\ status # "idle"
    /\ status' = "idle"
    /\ resp' = EmptyDict
    /\ NoLocals
    /\ UNCHANGED <<topics, sim_model>>

Next ==
    \/ \E topN \in TopNs, includeRelated \in BOOLEAN :
           AnalyzeKeywords(topN, includeRelated)
    \/ AnalyzeKeywordsFetchFails
    \/ Root
    \/ Return

Spec == Init /\ [][Next]_vars

SpecRank == InitRank /\ [][Next]_vars

(* ===================== what the claims speak about ===================== *)

\* The request reached top_keywords (it returned or raised).
Ran == status \in {"ok", "raised"}

Returned == status = "ok"

\* The unique normalized keywords of the input, read off topics directly.
InputUniques == { Normalize(topics[i]) : i \in 1..Len(topics) } \ { <<>> }

\* Occurrences of normalized keyword k in the input.
Count(k) == Cardinality({ i \in 1..Len(topics) : Normalize(topics[i]) = k })

NonEmptyCount == Cardinality({ i \in 1..Len(topics) : Normalize(topics[i]) # <<>> })

\* First-seen index of normalized keyword k in the input.
FirstSeen(k) ==
    CHOOSE i \in 1..Len(topics) :
        /\ Normalize(topics[i]) = k
        /\ \A j \in 1..(i - 1) : Normalize(topics[j]) # k

\* Cosine distance of two keywords under the loaded model.
CosDist(a, b) == IF a = b THEN 0 ELSE One - sim_model[{a, b}]

Members(c) == Range(clusters[c])

\* Complete-linkage distance of two clusters: the greatest member distance.
CompleteDist(c1, c2) ==
    CHOOSE d \in 0..One :
        /\ \E a \in Members(c1), b \in Members(c2) : CosDist(a, b) = d
        /\ \A a \in Members(c1), b \in Members(c2) : CosDist(a, b) <= d

\* The cluster a representative stands for.
ClusterOf(rep) == CHOOSE c \in 1..Len(clusters) : rep \in Members(c)

\* Earliest first-seen index among the members of cluster c.
EarliestSeen(c) ==
    CHOOSE i \in 1..Len(topics) :
        /\ \E m \in Members(c) : FirstSeen(m) = i
        /\ \A m \in Members(c) : FirstSeen(m) >= i

RECURSIVE SumTotals(_, _)
SumTotals(sc, n) == IF n = 0 THEN 0 ELSE SumTotals(sc, n - 1) + sc[n][2]

IsPartition ==
    /\ \A k \in InputUniques :
          Cardinality({ <<c, i>> \in (1..Len(clusters)) \X (1..Cardinality(InputUniques)) :
                           i <= Len(clusters[c]) /\ clusters[c][i] = k }) = 1
    /\ \A c \in 1..Len(clusters) :
          clusters[c] # <<>> /\ Members(c) \subseteq InputUniques

(* ------------------------------- C1 ------------------------------------ *)

\* C1: for every input keyword list, the clusters built by top_keywords
\* partition the unique normalized keywords: each belongs to exactly one
\* cluster, once, and no cluster is empty.
C1_ClustersPartitionUniques == Ran => IsPartition

\* C1 restricted to the requests top_keywords returns from.
C1_PartitionWhenReturned == Returned => IsPartition

(* ------------------------------- C2 ------------------------------------ *)

Descending == \A i, j \in 1..Len(scores) : i < j => scores[i][2] >= scores[j][2]

\* C2 as stated: ranking by totalFrequency descending, and of two clusters of
\* equal totalFrequency the one whose representative was seen first is first.
C2_TiesByRepresentativeFirstSeen ==
    Returned =>
        /\ Descending
        /\ \A i, j \in 1..Len(resp.topKeywords) :
              (i < j /\ scores[i][2] = scores[j][2])
                  => FirstSeen(resp.topKeywords[i]) < FirstSeen(resp.topKeywords[j])

\* C2 amended: ranking by totalFrequency descending, and of two clusters of
\* equal totalFrequency the one holding the earlier first-seen member is
\* first (the clusters keep the order of their first members).
C2_TiesByClusterFirstSeen ==
    Returned =>
        /\ Descending
        /\ \A i, j \in 1..Len(scores) :
              (i < j /\ scores[i][2] = scores[j][2])
                  => EarliestSeen(ClusterOf(scores[i][1]))
                       < EarliestSeen(ClusterOf(scores[j][1]))
        /\ \A i \in 1..Len(top_reps) : top_reps[i] = scores[i][1]

\* Two clusters tie on totalFrequency, and the first one's representative is
\* not its earliest member.
C2_Witness ==
    /\ Returned
    /\ \E i, j \in 1..Len(resp.topKeywords) :
          /\ i < j
          /\ scores[i][2] = scores[j][2]
          /\ FirstSeen(scores[i][1]) # EarliestSeen(ClusterOf(scores[i][1]))

(* ------------------------------- C3 ------------------------------------ *)

\* C3: with exactly one unique normalized keyword the request succeeds with
\* one cluster of size one and topKeywords holding just that keyword.
C3_SingleKeywordReturned ==
    (Ran /\ Cardinality(InputUniques) = 1) =>
        /\ status = "ok"
        /\ Len(clusters) = 1
        /\ Len(clusters[1]) = 1
        /\ "topKeywords" \in DOMAIN resp
        /\ Range(resp.topKeywords) = InputUniques
        /\ Len(resp.topKeywords) = 1

(* ------------------------------- C4 ------------------------------------ *)

MaxPairwise ==
    CHOOSE d \in 0..One :
        /\ \E a, b \in InputUniques : CosDist(a, b) = d
        /\ \A a, b \in InputUniques : CosDist(a, b) <= d

\* C4 as stated: no two output clusters are left at complete-linkage distance
\* <= distanceThreshold, and a threshold >= the largest pairwise distance
\* leaves exactly one cluster.
C4_NoPairWithinThreshold ==
    Returned =>
        /\ \A c1, c2 \in 1..Len(clusters) :
              c1 # c2 => CompleteDist(c1, c2) > distance_threshold
        /\ (InputUniques # {} /\ distance_threshold >= MaxPairwise)
              => Len(clusters) = 1

\* C4 amended: no two output clusters are left at complete-linkage distance
\* strictly below distanceThreshold, and a threshold strictly above the
\* largest pairwise distance leaves exactly one cluster.
C4_NoPairBelowThreshold ==
    Returned =>
        /\ \A c1, c2 \in 1..Len(clusters) :
              c1 # c2 => CompleteDist(c1, c2) >= distance_threshold
        /\ (InputUniques # {} /\ distance_threshold > MaxPairwise)
              => Len(clusters) = 1

\* Some merge happened and two clusters are left exactly at the threshold.
C4_Witness ==
    /\ Returned
    /\ \E c \in 1..Len(clusters) : Len(clusters[c]) > 1
    /\ \E c1, c2 \in 1..Len(clusters) :
          c1 # c2 /\ CompleteDist(c1, c2) = distance_threshold

(* ------------------------------- C5 ------------------------------------ *)

Reps == { scores[i][1] : i \in 1..Len(scores) }

\* C5: every cluster has one representative, a member of greatest frequency,
\* and among the members of greatest frequency the first seen.
C5_RepresentativeIsFirstMostFrequent ==
    Returned =>
        /\ Len(scores) = Len(clusters)
        /\ \A c \in 1..Len(clusters) :
              \E r \in Members(c) :
                  /\ Members(c) \cap Reps = {r}
                  /\ \A m \in Members(c) : Count(m) <= Count(r)
                  /\ \A m \in Members(c) :
                        (m # r /\ Count(m) = Count(r)) => FirstSeen(r) < FirstSeen(m)

\* A cluster whose greatest frequency is shared by two members.
C5_Witness ==
    /\ Returned
    /\ \E c \in 1..Len(clusters) :
          \E r, m \in Members(c) :
              /\ r \in Reps
              /\ m # r
              /\ Count(m) = Count(r)

(* ------------------------------- C6 ------------------------------------ *)

\* C6: topKeywords holds min(topN, number of clusters) keywords, the first
\* representatives of the ranking, without duplicates.  A request on which
\* top_keywords raises has neither clusters nor topKeywords.
C6_Truncation ==
    Ran =>
        /\ top_n \in MinTopN..MaxTopN
        /\ Len(scores) = Len(clusters)
        /\ Len(top_reps) = Min2(top_n, Len(clusters))
        /\ Returned <=> "topKeywords" \in DOMAIN resp
        /\ Returned => resp.topKeywords = top_reps
        /\ \A i \in 1..Len(top_reps) : top_reps[i] = scores[i][1]
        /\ \A i, j \in 1..Len(top_reps) : i # j => top_reps[i] # top_reps[j]

\* The ranking is longer than topN, so that it is cut.
C6_Witness ==
    /\ Returned
    /\ top_n < Len(clusters)
    /\ Len(resp.topKeywords) = top_n

(* ------------------------------- C7 ------------------------------------ *)

Thresholds == 1..One

\* Clusters the Cluster Builder makes of the current unique keywords under
\* threshold t.
ClusterCount(t) ==
    Cardinality(Range(FitLabels(Distance(Sim(sim_model, uniques)), t)))

\* C7: a larger distanceThreshold never gives more clusters than a smaller
\* one, the run's own threshold included.
C7_ThresholdMonotone ==
    Returned /\ Len(uniques) >= 2 =>
        /\ ClusterCount(distance_threshold) = Len(clusters)
        /\ \A t \in Thresholds :
              t < One => ClusterCount(t + 1) <= ClusterCount(t)

\* The count does drop between two thresholds.
C7_Witness ==
    /\ Returned
    /\ Len(uniques) >= 2
    /\ \E t \in Thresholds : t < One /\ ClusterCount(t + 1) < ClusterCount(t)
    /\ Len(clusters) > ClusterCount(One)

(* ------------------------------- C8 ------------------------------------ *)

\* C8: the totalFrequency of all clusters sums to the number of input
\* keywords that are non-empty after normalization.
C8_FrequencyConserved ==
    Ran => SumTotals(scores, Len(scores)) = NonEmptyCount

\* C8 restricted to the requests top_keywords returns from.
C8_ConservedWhenReturned ==
    Returned => SumTotals(scores, Len(scores)) = NonEmptyCount

(* ------------------------------- C9 ------------------------------------ *)

\* C9: when requested, related has exactly topKeywords as keys and maps each
\* to the other members of its own cluster; when not requested it is absent.
C9_Related ==
    /\ (Returned /\ return_related) =>
          /\ "related" \in DOMAIN resp
          /\ DOMAIN resp.related = Range(resp.topKeywords)
          /\ \A r \in DOMAIN resp.related :
                /\ Range(resp.related[r]) = Members(ClusterOf(r)) \ {r}
                /\ Len(resp.related[r]) = Len(clusters[ClusterOf(r)]) - 1
    /\ ~return_related => "related" \notin DOMAIN resp

\* Related members were requested and a representative has some.
C9_Witness ==
    /\ Returned
    /\ return_related
    /\ \E r \in DOMAIN resp.related : resp.related[r] # <<>>

(* ------------------------------- C10 ----------------------------------- *)

\* C10: any two members of one cluster are within distanceThreshold of each
\* other.
C10_DiameterBounded ==
    Returned =>
        \A c \in 1..Len(clusters) :
            \A a, b \in Members(c) : CosDist(a, b) <= distance_threshold

\* A chain: a near b, b near c, a far from c, and a cluster was formed.
C10_Witness ==
    /\ Returned
    /\ \E c \in 1..Len(clusters) : Len(clusters[c]) > 1
    /\ \E a, b, c \in InputUniques :
          /\ CosDist(a, b) < distance_threshold
          /\ CosDist(b, c) < distance_threshold
          /\ CosDist(a, c) > distance_threshold

====
